---------------------------- MODULE Spec2Model ----------------------------
(***************************************************************************)
(* Model of src/csc.py: the BLECycling peripheral (MicroPython).           *)
(*                                                                         *)
(* State: the fields of the BLECycling object, the platform clock read by  *)
(* time.ticks_ms(), and a record of what the last handler did to its       *)
(* collaborators (gatts_notify and gap_advertise calls, the exception that *)
(* left the handler).  Each handler of the class is one action.            *)
(***************************************************************************)
EXTENDS Integers, Sequences, FiniteSets, TLC

VARIABLES
    ticks,                          \* the value time.ticks_ms() returns now
    advances,                       \* number of clock advances so far (bounded)
    connections,                    \* self._connections
    payload,                        \* self._payload
    cumulative_wheel_revolutions,   \* self._cumulative_wheel_revolutions
    last_wheel_event_time,          \* self._last_wheel_event_time
    cumulative_crank_revolutions,   \* self._cumulative_crank_revolutions
    last_crank_event_time,          \* self._last_crank_event_time
    op,                             \* the last handler that ran, with its arguments
    accepted,                       \* the last handler passed the debounce test
    raised,                         \* the exception that left the last handler
    failing,                        \* handles whose gatts_notify raised or would raise
    notified,                       \* gatts_notify calls of the last handler that returned
    advertised,                     \* gap_advertise calls of the last handler
    measurement,                    \* _measurement built by the last send_measurement
    wheel_elapsed,                  \* true time since the last accepted wheel event
    crank_elapsed,                  \* true time since the last accepted crank event
    wheel_accepts,                  \* number of wheel events that passed the debounce
    crank_accepts,                  \* number of crank events that passed the debounce
    link                            \* handles with a CENTRAL_CONNECT observed and no
                                    \* CENTRAL_DISCONNECT observed since

vars == <<ticks, advances, connections, payload,
          cumulative_wheel_revolutions, last_wheel_event_time,
          cumulative_crank_revolutions, last_crank_event_time,
          op, accepted, raised, failing, notified, advertised, measurement,
          wheel_elapsed, crank_elapsed, wheel_accepts, crank_accepts, link>>

sensor == <<cumulative_wheel_revolutions, last_wheel_event_time,
            cumulative_crank_revolutions, last_crank_event_time>>

-----------------------------------------------------------------------------
(* Bounds of the model *)

MaxHandles == 2

MaxAdvances == 2

Handles == 1 .. MaxHandles

-----------------------------------------------------------------------------
(* Program constants *)

IRQ_CENTRAL_CONNECT == 1

IRQ_CENTRAL_DISCONNECT == 2

IRQ_GATTS_INDICATE_DONE == 20

\* an event code the handler has no branch for (_IRQ_GATTS_WRITE of the stack)
IRQ_OTHER == 3

IrqEvents == {IRQ_CENTRAL_CONNECT, IRQ_CENTRAL_DISCONNECT,
              IRQ_GATTS_INDICATE_DONE, IRQ_OTHER}

CSC_SERVICE_UUID == 6166

CSC_FEATURE_WHEEL_REV_DATA == 1

CSC_FEATURE_CRANK_REV_DATA == 2

\* 0x01 | 0x02: the two bits are disjoint, so the bitwise or is the sum
CSC_FEATURES == CSC_FEATURE_WHEEL_REV_DATA + CSC_FEATURE_CRANK_REV_DATA

ADV_APPEARANCE_CYCLING_SPEED_CADENCE_SENSOR == 1157

ADV_INTERVAL_US == 500000

\* the threshold of the debounce test, in ms
DEBOUNCE_MS == 167

\* the period of time.ticks_ms(): 2^30 on MicroPython's 32-bit ports
TICKS_PERIOD == 1073741824

TICKS_HALF == TICKS_PERIOD \div 2

-----------------------------------------------------------------------------
(* The clock *)

\* clock readings at which the object may be constructed
StartTicks == {1000, TICKS_HALF - 1}

\* amounts of time that pass between two handlers
Deltas == {DEBOUNCE_MS, DEBOUNCE_MS + 1, TICKS_HALF - 1}

\* time.ticks_diff(a, b): the signed ring difference a - b, in
\* -TICKS_PERIOD/2 .. TICKS_PERIOD/2 - 1
ticks_diff(a, b) == ((a - b + TICKS_HALF) % TICKS_PERIOD) - TICKS_HALF

\* ghost: true elapsed time, saturating at the clock period
Elapse(e, d) == IF e + d >= TICKS_PERIOD THEN TICKS_PERIOD ELSE e + d

-----------------------------------------------------------------------------
(* The measurement codec of send_measurement *)

\* pack with the bytes in big-endian order (">" for "<")
pack_big_endian(v, n) == [i \in 1 .. n |-> (v \div (256 ^ (n - i))) % 256]

\* struct.pack("<I"/"<H", v) of MicroPython: the n low bytes of v, little-endian
\* (MicroPython's struct does not range-check, it keeps the low bytes)
pack(v, n) == [i \in 1 .. n |-> (v \div (256 ^ (i - 1))) % 256]

\* event_time with the product rounded to the nearest integer
event_time_nearest(t) == (t \div 1000) * 1024 + ((t % 1000) * 1024 + 500) \div 1000

\* int(t * 1.024): the product truncated toward zero; t >= 0 here.
\* The product is taken exactly: in double precision t * 1.024 truncates to
\* the same integer as t * 1024 / 1000 for every t below TICKS_PERIOD.
\* t * 1024 is split at 1000 so that no intermediate exceeds 32 bits.
event_time(t) == (t \div 1000) * 1024 + ((t % 1000) * 1024) \div 1000

\* _measurement as built by send_measurement, bytes 0..10 at indices 1..11
Measurement(wc, wt, cc, ct) ==
    <<CSC_FEATURES>> \o pack(wc, 4) \o pack(event_time(wt), 2)
                     \o pack(cc, 2) \o pack(event_time(ct), 2)

\* the orders in which "for conn_handle in self._connections" can visit a set
Orders(S) ==
    {s \in [1 .. Cardinality(S) -> S] :
        \A i, j \in 1 .. Cardinality(S) : i # j => s[i] # s[j]}

\* index of the first handle of the order whose gatts_notify raises
FirstFail(order, F) ==
    IF \E i \in 1 .. Len(order) : order[i] \in F
    THEN CHOOSE i \in 1 .. Len(order) :
            order[i] \in F /\ \A j \in 1 .. (i - 1) : order[j] \notin F
    ELSE Len(order) + 1

\* Fanout with the loop left after its first call
Fanout_first_only(order, F, data) ==
    [i \in 1 .. (IF FirstFail(order, F) > 1 /\ Len(order) >= 1 THEN 1 ELSE 0) |->
        [conn_handle |-> order[i], data |-> data]]

\* the gatts_notify calls of the loop that return: the loop has no try/except,
\* so it ends at the first call that raises
Fanout(order, F, data) ==
    [i \in 1 .. (FirstFail(order, F) - 1) |->
        [conn_handle |-> order[i], data |-> data]]

\* the exception that leaves send_measurement
FanoutRaised(order, F) ==
    IF FirstFail(order, F) <= Len(order) THEN "OSError" ELSE "none"

-----------------------------------------------------------------------------
(* Construction *)

\* advertising_payload(name=..., services=[...], appearance=...)
AdvertisingPayload ==
    [name |-> "cheapensor", services |-> <<CSC_SERVICE_UUID>>,
     appearance |-> ADV_APPEARANCE_CYCLING_SPEED_CADENCE_SENSOR]

\* advertise with the payload built again, without the device name
advertise_rebuilt(p) ==
    [interval_us |-> ADV_INTERVAL_US, adv_data |-> [p EXCEPT !.name = ""]]

\* self._ble.gap_advertise(interval_us, adv_data=self._payload)
advertise(p) == [interval_us |-> ADV_INTERVAL_US, adv_data |-> p]

\* the object as __init__ leaves it
Constructed ==
    /\ advances = 0
    /\ connections = {}
    /\ payload = AdvertisingPayload
    /\ cumulative_wheel_revolutions = 0
    /\ last_wheel_event_time = 0
    /\ cumulative_crank_revolutions = 0
    /\ last_crank_event_time = 0
    /\ op = [name |-> "__init__"]
    /\ accepted = FALSE
    /\ raised = "none"
    /\ failing = {}
    /\ notified = <<>>
    /\ advertised = <<advertise(payload)>>
    /\ measurement = <<>>
    /\ wheel_elapsed = 0
    /\ crank_elapsed = 0
    /\ wheel_accepts = 0
    /\ crank_accepts = 0
    /\ link = {}

Init == ticks \in StartTicks /\ Constructed

-----------------------------------------------------------------------------
(* Time passes between handlers *)

Tick ==
    /\ advances < MaxAdvances
    /\ \E d \in Deltas :
        /\ ticks' = (ticks + d) % TICKS_PERIOD
        /\ wheel_elapsed' = Elapse(wheel_elapsed, d)
        /\ crank_elapsed' = Elapse(crank_elapsed, d)
    /\ advances' = advances + 1
    /\ op' = [name |-> "tick"]
    /\ accepted' = FALSE
    /\ raised' = "none"
    /\ failing' = {}
    /\ notified' = <<>>
    /\ advertised' = <<>>
    /\ measurement' = <<>>
    /\ UNCHANGED <<connections, payload, sensor, wheel_accepts, crank_accepts, link>>

-----------------------------------------------------------------------------
(* The sensor handlers *)

\* the debounce test of wheel_event and crank_event
debounce(now, last) == ticks_diff(now, last) > DEBOUNCE_MS

\* count_event counting a revolution twice
count_event_twice(c) == c + 2

\* "+= 1" on a revolution counter (a Python int: it does not wrap)
count_event(c) == c + 1

\* send_measurement, called with the counters already updated
send_measurement(wc, wt, cc, ct) ==
    /\ measurement' = Measurement(wc, wt, cc, ct)
    /\ advertised' = <<>>
    /\ \E order \in Orders(connections), F \in SUBSET connections :
        /\ failing' = F
        /\ notified' = Fanout(order, F, measurement')
        /\ raised' = FanoutRaised(order, F)

\* Dropped with send_measurement() called outside the "if"
Dropped_sends ==
    /\ accepted' = FALSE
    /\ send_measurement(cumulative_wheel_revolutions, last_wheel_event_time,
                        cumulative_crank_revolutions, last_crank_event_time)

\* what a sensor handler does to the collaborators when the test fails:
\* the "if" has no else branch
Dropped ==
    /\ accepted' = FALSE
    /\ raised' = "none"
    /\ failing' = {}
    /\ notified' = <<>>
    /\ advertised' = <<>>
    /\ measurement' = <<>>

wheel_event ==
    /\ op' = [name |-> "wheel_event"]
    /\ IF debounce(ticks, last_wheel_event_time)
       THEN /\ last_wheel_event_time' = ticks
            /\ cumulative_wheel_revolutions' = count_event(cumulative_wheel_revolutions)
            /\ accepted' = TRUE
            /\ send_measurement(cumulative_wheel_revolutions', last_wheel_event_time',
                                cumulative_crank_revolutions, last_crank_event_time)
            /\ wheel_accepts' = wheel_accepts + 1
            /\ wheel_elapsed' = 0
       ELSE /\ Dropped
            /\ UNCHANGED <<last_wheel_event_time, cumulative_wheel_revolutions,
                           wheel_accepts, wheel_elapsed>>
    /\ UNCHANGED <<ticks, advances, connections, payload,
                   cumulative_crank_revolutions, last_crank_event_time,
                   crank_elapsed, crank_accepts, link>>

crank_event ==
    /\ op' = [name |-> "crank_event"]
    /\ IF debounce(ticks, last_crank_event_time)
       THEN /\ last_crank_event_time' = ticks
            /\ cumulative_crank_revolutions' = count_event(cumulative_crank_revolutions)
            /\ accepted' = TRUE
            /\ send_measurement(cumulative_wheel_revolutions, last_wheel_event_time,
                                cumulative_crank_revolutions', last_crank_event_time')
            /\ crank_accepts' = crank_accepts + 1
            /\ crank_elapsed' = 0
       ELSE /\ Dropped
            /\ UNCHANGED <<last_crank_event_time, cumulative_crank_revolutions,
                           crank_accepts, crank_elapsed>>
    /\ UNCHANGED <<ticks, advances, connections, payload,
                   cumulative_wheel_revolutions, last_wheel_event_time,
                   wheel_elapsed, wheel_accepts, link>>

\* speed_sensor_irq calling crank_event()
speed_sensor_irq_crank == crank_event

\* the rising-edge handler of the speed sensor pin
speed_sensor_irq == wheel_event

-----------------------------------------------------------------------------
(* The BLE stack's event callback *)

\* set.remove(h) raises KeyError when h is not a member
irq_raised(event, h) ==
    IF event = IRQ_CENTRAL_DISCONNECT /\ h \notin connections
    THEN "KeyError" ELSE "none"

\* irq_connections with the disconnect branch emptying the registry
irq_connections_clear(event, h) ==
    IF event = IRQ_CENTRAL_CONNECT THEN connections \cup {h}
    ELSE IF event = IRQ_CENTRAL_DISCONNECT THEN {}
    ELSE connections

\* self._connections after the handler
irq_connections(event, h) ==
    IF event = IRQ_CENTRAL_CONNECT THEN connections \cup {h}
    ELSE IF event = IRQ_CENTRAL_DISCONNECT THEN connections \ {h}
    ELSE connections

\* irq_advertised with _advertise() called after the branches, for any event
irq_advertised_always(event, h) == <<advertise(payload)>>

\* the gap_advertise calls of the handler: _advertise() ends the connect
\* branch, and ends the disconnect branch when remove() returned
irq_advertised(event, h) ==
    IF event = IRQ_CENTRAL_CONNECT THEN <<advertise(payload)>>
    ELSE IF event = IRQ_CENTRAL_DISCONNECT /\ irq_raised(event, h) = "none"
         THEN <<advertise(payload)>>
    ELSE <<>>

irq(event, h) ==
    /\ op' = [name |-> "_irq", event |-> event, conn_handle |-> h]
    /\ connections' = irq_connections(event, h)
    /\ raised' = irq_raised(event, h)
    /\ advertised' = irq_advertised(event, h)
    /\ accepted' = FALSE
    /\ failing' = {}
    /\ notified' = <<>>
    /\ measurement' = <<>>
    /\ link' = IF event = IRQ_CENTRAL_CONNECT THEN link \cup {h}
               ELSE IF event = IRQ_CENTRAL_DISCONNECT THEN link \ {h}
               ELSE link
    /\ UNCHANGED <<ticks, advances, payload, sensor,
                   wheel_elapsed, crank_elapsed, wheel_accepts, crank_accepts>>

ble_irq == \E event \in IrqEvents, h \in Handles : irq(event, h)

-----------------------------------------------------------------------------

Next == Tick \/ speed_sensor_irq \/ crank_event \/ ble_irq

Spec == Init /\ [][Next]_vars

-----------------------------------------------------------------------------
(* The codec on its own: the object is constructed at any of a range of    *)
(* clock readings and the sensor handlers encode what they stored.         *)

MaxCodecTick == 400

\* 64000 ms is 65536 units of 1/1024 s: the 16-bit field wraps there
CodecTicks == (0 .. MaxCodecTick) \cup {1000, 63999, 64000, 64001, TICKS_HALF - 1}

InitCodec == ticks \in CodecTicks /\ Constructed

NextCodec == speed_sensor_irq \/ crank_event

SpecCodec == InitCodec /\ [][NextCodec]_vars

-----------------------------------------------------------------------------
(* The codec over wide inputs: the object after any number of revolutions, *)
(* its last accepted events at clock reading 0, read at a later clock      *)
(* reading.  Counts stay below 2^31, the widest integer the checker holds. *)

\* revolution counts around the widths of the two count fields
EncodeCounts == {0, 1, 255, 256, 65535, 65536, 65537, 16777216, 2147483645}

\* clock readings whose scaled value is below, at and above 65536
EncodeTicks == {168, 1000, 63999, 64000, 64001, 128000, TICKS_HALF - 1}

InitEncode ==
    /\ ticks \in EncodeTicks
    /\ advances = 0
    /\ connections = {}
    /\ payload = AdvertisingPayload
    /\ cumulative_wheel_revolutions \in EncodeCounts
    /\ last_wheel_event_time = 0
    /\ cumulative_crank_revolutions \in EncodeCounts
    /\ last_crank_event_time = 0
    /\ op = [name |-> "tick"]
    /\ accepted = FALSE
    /\ raised = "none"
    /\ failing = {}
    /\ notified = <<>>
    /\ advertised = <<>>
    /\ measurement = <<>>
    /\ wheel_elapsed = (IF cumulative_wheel_revolutions > 0 THEN ticks ELSE 0)
    /\ crank_elapsed = (IF cumulative_crank_revolutions > 0 THEN ticks ELSE 0)
    /\ wheel_accepts = cumulative_wheel_revolutions
    /\ crank_accepts = cumulative_crank_revolutions
    /\ link = {}

NextEncode == speed_sensor_irq \/ crank_event

SpecEncode == InitEncode /\ [][NextEncode]_vars

-----------------------------------------------------------------------------
(* The fan-out taken one gatts_notify call at a time, for a platform on    *)
(* which another handler can run between two calls of the loop.  While the *)
(* loop runs, op holds its position: the handles visited so far, and for   *)
(* the properties the registry and the sensor fields as the loop began.    *)
(* _measurement is a local of send_measurement, kept here in op.data.      *)

FanoutRunning == op.name = "send_measurement"

\* loop_data with _measurement encoded again inside the loop
loop_data_rebuilt(buf) ==
    Measurement(cumulative_wheel_revolutions, last_wheel_event_time,
                cumulative_crank_revolutions, last_crank_event_time)

\* the buffer a gatts_notify call of the loop passes: the local _measurement
loop_data(buf) == buf

\* wheel_event up to the head of the loop of send_measurement
race_begin ==
    /\ ~FanoutRunning
    /\ IF debounce(ticks, last_wheel_event_time)
       THEN /\ last_wheel_event_time' = ticks
            /\ cumulative_wheel_revolutions' = count_event(cumulative_wheel_revolutions)
            /\ accepted' = TRUE
            /\ measurement' =
                    Measurement(cumulative_wheel_revolutions', last_wheel_event_time',
                                cumulative_crank_revolutions, last_crank_event_time)
            /\ op' = [name |-> "send_measurement", visited |-> {},
                      data |-> measurement', begun |-> connections,
                      snap |-> [wc |-> wheel_accepts + 1,
                                wt |-> ticks,
                                cc |-> crank_accepts,
                                ct |-> last_crank_event_time]]
            /\ raised' = "none"
            /\ failing' = {}
            /\ notified' = <<>>
            /\ advertised' = <<>>
            /\ wheel_accepts' = wheel_accepts + 1
            /\ wheel_elapsed' = 0
       ELSE /\ op' = [name |-> "wheel_event"]
            /\ Dropped
            /\ UNCHANGED <<last_wheel_event_time, cumulative_wheel_revolutions,
                           wheel_accepts, wheel_elapsed>>
    /\ UNCHANGED <<ticks, advances, connections, payload,
                   cumulative_crank_revolutions, last_crank_event_time,
                   crank_elapsed, crank_accepts, link>>

\* one turn of the loop: the iterator yields a member of the set as it is
\* now that it has not yielded yet, and gatts_notify is called for it
race_notify ==
    /\ FanoutRunning
    /\ \E h \in connections \ op.visited :
        /\ notified' = Append(notified, [conn_handle |-> h, data |-> loop_data(op.data)])
        /\ op' = [op EXCEPT !.visited = @ \cup {h}]
    /\ UNCHANGED <<ticks, advances, connections, payload, sensor, accepted, raised,
                   failing, advertised, measurement, wheel_elapsed, crank_elapsed,
                   wheel_accepts, crank_accepts, link>>

\* the iterator is exhausted: send_measurement and wheel_event return
race_end ==
    /\ FanoutRunning
    /\ connections \ op.visited = {}
    /\ op' = [name |-> "wheel_event", begun |-> op.begun, snap |-> op.snap]
    /\ UNCHANGED <<ticks, advances, connections, payload, sensor, accepted, raised,
                   failing, notified, advertised, measurement, wheel_elapsed,
                   crank_elapsed, wheel_accepts, crank_accepts, link>>

\* the loop is between two of its calls
BetweenCalls == FanoutRunning /\ op.visited # {} /\ connections \ op.visited # {}

\* _irq handling a connect or disconnect between two calls of the loop
race_irq ==
    /\ BetweenCalls
    /\ \E event \in {IRQ_CENTRAL_CONNECT, IRQ_CENTRAL_DISCONNECT}, h \in Handles :
        /\ connections' = irq_connections(event, h)
        /\ advertised' = irq_advertised(event, h)
        /\ link' = IF event = IRQ_CENTRAL_CONNECT THEN link \cup {h} ELSE link \ {h}
    /\ UNCHANGED <<ticks, advances, payload, sensor, op, accepted, raised, failing,
                   notified, measurement, wheel_elapsed, crank_elapsed,
                   wheel_accepts, crank_accepts>>

\* time passing between two calls of the loop
race_clock ==
    /\ BetweenCalls
    /\ advances < MaxAdvances
    /\ ticks' = (ticks + DEBOUNCE_MS + 1) % TICKS_PERIOD
    /\ wheel_elapsed' = Elapse(wheel_elapsed, DEBOUNCE_MS + 1)
    /\ crank_elapsed' = Elapse(crank_elapsed, DEBOUNCE_MS + 1)
    /\ advances' = advances + 1
    /\ UNCHANGED <<connections, payload, sensor, op, accepted, raised, failing,
                   notified, advertised, measurement, wheel_accepts, crank_accepts,
                   link>>

\* wheel_event accepted between two calls of the loop; it builds a
\* _measurement of its own, and its own notify calls are not recorded
race_wheel ==
    /\ BetweenCalls
    /\ debounce(ticks, last_wheel_event_time)
    /\ last_wheel_event_time' = ticks
    /\ cumulative_wheel_revolutions' = count_event(cumulative_wheel_revolutions)
    /\ measurement' =
            Measurement(cumulative_wheel_revolutions', last_wheel_event_time',
                        cumulative_crank_revolutions, last_crank_event_time)
    /\ wheel_accepts' = wheel_accepts + 1
    /\ wheel_elapsed' = 0
    /\ UNCHANGED <<ticks, advances, connections, payload,
                   cumulative_crank_revolutions, last_crank_event_time,
                   op, accepted, raised, failing, notified, advertised,
                   crank_elapsed, crank_accepts, link>>

\* crank_event accepted between two calls of the loop, likewise
race_crank ==
    /\ BetweenCalls
    /\ debounce(ticks, last_crank_event_time)
    /\ last_crank_event_time' = ticks
    /\ cumulative_crank_revolutions' = count_event(cumulative_crank_revolutions)
    /\ measurement' =
            Measurement(cumulative_wheel_revolutions, last_wheel_event_time,
                        cumulative_crank_revolutions', last_crank_event_time')
    /\ crank_accepts' = crank_accepts + 1
    /\ crank_elapsed' = 0
    /\ UNCHANGED <<ticks, advances, connections, payload,
                   cumulative_wheel_revolutions, last_wheel_event_time,
                   op, accepted, raised, failing, notified, advertised,
                   wheel_elapsed, wheel_accepts, link>>

\* a central connecting while no fan-out is in progress
race_idle == ~FanoutRunning /\ \E h \in Handles : irq(IRQ_CENTRAL_CONNECT, h)

NextRace ==
    \/ race_begin
    \/ race_notify
    \/ race_end
    \/ race_irq
    \/ race_clock
    \/ race_wheel
    \/ race_crank
    \/ race_idle

SpecRace == Init /\ [][NextRace]_vars

-----------------------------------------------------------------------------
(* __init__ taken one statement at a time.  While it runs, op holds the    *)
(* next statement, the attributes bound so far and the calls made on the   *)
(* BLE object so far.                                                      *)

\* init_program with _advertise() called first
init_program_advertise_first ==
    <<"_advertise", "active", "irq", "gatts_register_services", "_connections",
      "_payload", "gatts_write", "counters", "Pin.irq">>

\* the statements of __init__ in program order
init_program ==
    <<"active", "irq", "gatts_register_services", "_connections", "_payload",
      "gatts_write", "_advertise", "counters", "Pin.irq">>

\* the call a statement makes on the BLE object, with its data
init_call(s) ==
    CASE s = "active" -> <<[call |-> "active", data |-> <<>>]>>
      [] s = "irq" -> <<[call |-> "irq", data |-> <<>>]>>
      [] s = "gatts_register_services" ->
            <<[call |-> "gatts_register_services", data |-> <<CSC_SERVICE_UUID>>]>>
      [] s = "gatts_write" ->
            <<[call |-> "gatts_write", data |-> pack(CSC_FEATURES, 2)]>>
      [] s = "_advertise" -> <<[call |-> "gap_advertise", data |-> <<>>]>>
      [] OTHER -> <<>>

\* the attributes a statement binds
init_binds(s) ==
    CASE s = "_connections" -> {"_connections"}
      [] s = "_payload" -> {"_payload"}
      [] s = "counters" -> {"cumulative_wheel_revolutions", "last_wheel_event_time",
                            "cumulative_crank_revolutions", "last_crank_event_time"}
      [] OTHER -> {}

InitRunning == op.name = "__init__" /\ op.pc <= Len(init_program)

\* before __init__: no attribute is bound, no call has been made
InitStartup ==
    /\ ticks \in StartTicks
    /\ advances = 0
    /\ connections = {}
    /\ payload = [name |-> "", services |-> <<>>, appearance |-> 0]
    /\ cumulative_wheel_revolutions = 0
    /\ last_wheel_event_time = 0
    /\ cumulative_crank_revolutions = 0
    /\ last_crank_event_time = 0
    /\ op = [name |-> "__init__", pc |-> 1, bound |-> {}, calls |-> <<>>]
    /\ accepted = FALSE
    /\ raised = "none"
    /\ failing = {}
    /\ notified = <<>>
    /\ advertised = <<>>
    /\ measurement = <<>>
    /\ wheel_elapsed = 0
    /\ crank_elapsed = 0
    /\ wheel_accepts = 0
    /\ crank_accepts = 0
    /\ link = {}

\* one statement of __init__
init_step ==
    /\ InitRunning
    /\ LET s == init_program[op.pc] IN
        /\ op' = [name |-> "__init__", pc |-> op.pc + 1,
                  bound |-> op.bound \cup init_binds(s),
                  calls |-> op.calls \o init_call(s)]
        /\ connections' = IF s = "_connections" THEN {} ELSE connections
        /\ payload' = IF s = "_payload" THEN AdvertisingPayload ELSE payload
        /\ advertised' = IF s = "_advertise" THEN <<advertise(payload)>> ELSE advertised
        /\ IF s = "counters"
           THEN /\ cumulative_wheel_revolutions' = 0
                /\ last_wheel_event_time' = 0
                /\ cumulative_crank_revolutions' = 0
                /\ last_crank_event_time' = 0
           ELSE UNCHANGED sensor
    /\ UNCHANGED <<ticks, advances, accepted, raised, failing, notified, measurement,
                   wheel_elapsed, crank_elapsed, wheel_accepts, crank_accepts, link>>

\* the handlers run once __init__ has armed them
NextStartup ==
    \/ init_step
    \/ ~InitRunning /\ speed_sensor_irq
    \/ ~InitRunning /\ ble_irq

SpecStartup == InitStartup /\ [][NextStartup]_vars

-----------------------------------------------------------------------------
(* The running system: the only handlers armed by __init__ are             *)
(* speed_sensor_irq, on the pin, and _irq, on the BLE object.              *)

NextRunning == Tick \/ speed_sensor_irq \/ ble_irq

SpecRunning == Init /\ [][NextRunning]_vars

-----------------------------------------------------------------------------
(* Vocabulary of the properties *)

IsIrq(o, event) == o.name = "_irq" /\ o.event = event

IsSensor(o) == o.name \in {"wheel_event", "crank_event"}

\* the handles the last handler's gatts_notify calls returned for
Recipients(calls) == {calls[i].conn_handle : i \in 1 .. Len(calls)}

-----------------------------------------------------------------------------
(* C1: a CENTRAL_DISCONNECT for a handle that is not in the registry is a  *)
(* no-op: the handler raises no error and leaves the registry as it was.   *)
C1_UnknownDisconnectNoOp ==
    [][(IsIrq(op', IRQ_CENTRAL_DISCONNECT) /\ op'.conn_handle \notin connections)
        => (raised' = "none" /\ connections' = connections)]_vars

(* C2: in the fan-out of an accepted sensor event, every registered        *)
(* connection whose own notify does not fail receives the measurement,     *)
(* whatever the iteration order and whichever other notify fails.          *)
C2_FanoutResilience ==
    (IsSensor(op) /\ accepted) => (connections \ failing) \subseteq Recipients(notified)

(* C3: a raw event on a channel, a true time D (less than the clock        *)
(* period) after the channel's last accepted event, is accepted iff        *)
(* D > 167 ms; the clock may have wrapped in between.                      *)
C3_DebounceBoundary ==
    [][/\ (op'.name = "wheel_event" /\ wheel_accepts > 0 /\ wheel_elapsed < TICKS_PERIOD)
            => (accepted' <=> wheel_elapsed > 167)
       /\ (op'.name = "crank_event" /\ crank_accepts > 0 /\ crank_elapsed < TICKS_PERIOD)
            => (accepted' <=> crank_elapsed > 167)]_vars

(* C4: on each channel cumulative_count equals the number of accepted      *)
(* events; an accepted event adds exactly 1 to its channel's count and no  *)
(* other step changes a count.                                             *)
C4_CountIsAccepted ==
    /\ [](/\ cumulative_wheel_revolutions = wheel_accepts
          /\ cumulative_crank_revolutions = crank_accepts)
    /\ [][/\ cumulative_wheel_revolutions' =
                cumulative_wheel_revolutions
                    + (IF op'.name = "wheel_event" /\ accepted' THEN 1 ELSE 0)
          /\ cumulative_crank_revolutions' =
                cumulative_crank_revolutions
                    + (IF op'.name = "crank_event" /\ accepted' THEN 1 ELSE 0)]_vars

C4_Witness ==
    /\ op.name = "wheel_event" /\ ~accepted
    /\ cumulative_wheel_revolutions = 2
    /\ cumulative_crank_revolutions = 1

(* C5: a rejected raw event changes neither channel, nor the registry, nor *)
(* the payload; it makes no notify call and raises no error.               *)
C5_RejectedChangesNothing ==
    [][(IsSensor(op') /\ ~accepted')
        => /\ UNCHANGED <<sensor, connections, payload>>
           /\ notified' = <<>>
           /\ failing' = {}
           /\ raised' = "none"]_vars

C5_Witness ==
    /\ op.name = "wheel_event" /\ ~accepted
    /\ wheel_accepts > 0
    /\ connections # {}

(* C6: with no notify failing, an accepted wheel event makes exactly one   *)
(* notify call per registered handle (none when the registry is empty, the *)
(* counters being updated all the same); each call carries the wheel count *)
(* after its increment and the crank count and crank time from before.     *)
C6_WheelFanout ==
    [][(op'.name = "wheel_event" /\ accepted' /\ failing' = {})
        => /\ Len(notified') = Cardinality(connections)
           /\ Recipients(notified') = connections
           /\ cumulative_wheel_revolutions' = cumulative_wheel_revolutions + 1
           /\ last_wheel_event_time' = ticks
           /\ \A i \in 1 .. Len(notified') :
                LET d == notified'[i].data IN
                /\ Len(d) = 11
                /\ d[2] + 256 * d[3] + 65536 * d[4] + 16777216 * d[5]
                        = cumulative_wheel_revolutions + 1
                /\ d[8] + 256 * d[9] = cumulative_crank_revolutions % 65536
                /\ <<d[10], d[11]>> = pack(event_time(last_crank_event_time), 2)
           /\ UNCHANGED <<cumulative_crank_revolutions, last_crank_event_time>>]_vars

C6_Witness ==
    /\ op.name = "wheel_event" /\ accepted /\ failing = {}
    /\ Cardinality(connections) = 2
    /\ Len(notified) = 2
    /\ cumulative_wheel_revolutions = 2
    /\ cumulative_crank_revolutions = 1

(* C7: a handle is in the registry iff a CENTRAL_CONNECT was observed for  *)
(* it with no CENTRAL_DISCONNECT for it since; a connect for a registered  *)
(* handle leaves the registry as it was, a disconnect removes that handle  *)
(* and no other.                                                           *)
C7_RegistryInvariant ==
    /\ [](connections = link)
    /\ [][/\ (IsIrq(op', IRQ_CENTRAL_CONNECT) /\ op'.conn_handle \in connections)
                => connections' = connections
          /\ IsIrq(op', IRQ_CENTRAL_CONNECT)
                => connections' = connections \cup {op'.conn_handle}
          /\ IsIrq(op', IRQ_CENTRAL_DISCONNECT)
                => connections' = connections \ {op'.conn_handle}]_vars

C7_Witness ==
    /\ IsIrq(op, IRQ_CENTRAL_DISCONNECT) /\ op.conn_handle = 1
    /\ raised = "none"
    /\ connections = {2}

(* C8: every CENTRAL_CONNECT and every CENTRAL_DISCONNECT handled, for     *)
(* every handle, is followed by a start_advertising call before the        *)
(* handler finishes.                                                       *)
C8_AlwaysReadvertise ==
    (IsIrq(op, IRQ_CENTRAL_CONNECT) \/ IsIrq(op, IRQ_CENTRAL_DISCONNECT))
        => Len(advertised) >= 1

(* C9: when the last registered connection disconnects the registry is     *)
(* empty and advertising is started again; every start_advertising call,   *)
(* at startup and on each restart, passes the payload built at startup,    *)
(* which is never modified.                                                *)
C9_PayloadUnchanged ==
    /\ payload = AdvertisingPayload
    /\ \A i \in 1 .. Len(advertised) : advertised[i].adv_data = AdvertisingPayload
    /\ op.name = "__init__" => Len(advertised) = 1
    /\ (IsIrq(op, IRQ_CENTRAL_DISCONNECT) /\ raised = "none" /\ connections = {})
            => Len(advertised) = 1

C9_Witness ==
    /\ IsIrq(op, IRQ_CENTRAL_DISCONNECT) /\ raised = "none"
    /\ connections = {}
    /\ Len(advertised) = 1
    /\ cumulative_wheel_revolutions > 0

(* C10: in every encoded measurement the wheel and crank event-time fields *)
(* (bytes 5-6 and 9-10, little-endian) are the channel's                   *)
(* last_event_time_ms times 1024/1000, modulo 65536: as claimed, rounded   *)
(* to the nearest integer; as amended, rounded down.                       *)

\* v is the integer nearest to t * 128/125, modulo 65536
IsNearest(v, t) ==
    \E e \in 0 .. 128 :
        /\ 125 * e - 128 * (t % 125) <= 62
        /\ 128 * (t % 125) - 125 * e <= 62
        /\ v = (128 * (t \div 125) + e) % 65536

\* v is the largest integer not above t * 128/125, modulo 65536
IsFloor(v, t) ==
    \E e \in 0 .. 128 :
        /\ 125 * e <= 128 * (t % 125)
        /\ 128 * (t % 125) < 125 * (e + 1)
        /\ v = (128 * (t \div 125) + e) % 65536

C10_EventTimeNearest ==
    measurement # <<>>
        => /\ IsNearest(measurement[6] + 256 * measurement[7], last_wheel_event_time)
           /\ IsNearest(measurement[10] + 256 * measurement[11], last_crank_event_time)

C10_EventTimeFloor ==
    measurement # <<>>
        => /\ IsFloor(measurement[6] + 256 * measurement[7], last_wheel_event_time)
           /\ IsFloor(measurement[10] + 256 * measurement[11], last_crank_event_time)

C10_Witness ==
    /\ op.name = "wheel_event" /\ accepted
    /\ last_wheel_event_time = 1000
    /\ measurement[6] = 0 /\ measurement[7] = 4

C12_NoFalseDecision ==
    [][/\ (op'.name = "wheel_event" /\ wheel_accepts > 0
            /\ wheel_elapsed < TICKS_PERIOD)
            => /\ ~accepted' => wheel_elapsed <= 167
               /\ accepted' => wheel_elapsed > 167
       /\ (op'.name = "crank_event" /\ crank_accepts > 0
            /\ crank_elapsed < TICKS_PERIOD)
            => /\ ~accepted' => crank_elapsed <= 167
               /\ accepted' => crank_elapsed > 167]_vars

(* C13: a notify failure during the fan-out of an accepted event leaves    *)
(* the event counted exactly once with its time stored, lets the sensor    *)
(* handler finish without an error propagating, and is not retried: no     *)
(* handle is notified twice for the event.                                 *)
C13_FailureIsContained ==
    [][(op'.name = "wheel_event" /\ accepted' /\ failing' # {})
        => /\ cumulative_wheel_revolutions' = cumulative_wheel_revolutions + 1
           /\ last_wheel_event_time' = ticks
           /\ UNCHANGED <<cumulative_crank_revolutions, last_crank_event_time>>
           /\ raised' = "none"
           /\ Len(notified') = Cardinality(Recipients(notified'))
           /\ Recipients(notified') \cap failing' = {}]_vars

(* C14: a fan-out during which a connect or disconnect is handled between *)
(* two of its notify calls still ends without error, having notified       *)
(* exactly the handles registered when it began, each once.                *)
C14_ConsistentView ==
    (op.name = "wheel_event" /\ accepted)
        => /\ raised = "none"
           /\ Recipients(notified) = op.begun
           /\ Len(notified) = Cardinality(op.begun)

(* C15: every notify call of one fan-out carries the same bytes, the       *)
(* encoding of the fields as they were right after the triggering event    *)
(* (wheel count k with the clock reading of the k-th accepted wheel        *)
(* event), also when a further sensor event is accepted before the         *)
(* fan-out ends.                                                           *)
C15_ImmutableSnapshot ==
    (op.name \in {"send_measurement", "wheel_event"} /\ accepted)
        => \A i \in 1 .. Len(notified) :
            LET d == notified[i].data IN
            /\ d = notified[1].data
            /\ d[1] = CSC_FEATURES
            /\ d[2] + 256 * d[3] + 65536 * d[4] + 16777216 * d[5] = op.snap.wc
            /\ <<d[6], d[7]>> = pack(event_time(op.snap.wt), 2)
            /\ d[8] + 256 * d[9] = op.snap.cc % 65536
            /\ <<d[10], d[11]>> = pack(event_time(op.snap.ct), 2)

C15_Witness ==
    /\ op.name = "wheel_event" /\ accepted
    /\ Len(notified) = 2
    /\ op.snap.wc = 1
    /\ cumulative_wheel_revolutions = 2
    /\ cumulative_crank_revolutions = op.snap.cc + 1
    /\ notified[2].data = notified[1].data

(* C16: in __init__ the first gap_advertise call comes after the CSC       *)
(* service has been registered and the feature attribute written with the  *)
(* two bytes of 0x0003, and when it is made the registry exists, is empty  *)
(* and no central is connected.                                            *)
FirstCall(calls, c) ==
    CHOOSE k \in 1 .. Len(calls) + 1 :
        /\ k <= Len(calls) => calls[k].call = c
        /\ \A i \in 1 .. k - 1 : i <= Len(calls) => calls[i].call # c

C16_StartupOrdering ==
    (op.name = "__init__" /\ FirstCall(op.calls, "gap_advertise") <= Len(op.calls))
        => /\ FirstCall(op.calls, "gatts_register_services")
                < FirstCall(op.calls, "gap_advertise")
           /\ \E j \in 1 .. FirstCall(op.calls, "gap_advertise") - 1 :
                /\ op.calls[j].call = "gatts_write"
                /\ op.calls[j].data = <<3, 0>>
           /\ "_connections" \in op.bound
           /\ connections = {}
           /\ link = {}
           /\ advertised = <<[interval_us |-> 500000, adv_data |-> AdvertisingPayload]>>

C16_Witness ==
    /\ op.name = "__init__"
    /\ Len(op.calls) = 5
    /\ op.calls[5].call = "gap_advertise"
    /\ op.pc = 8
    /\ advertised # <<>>

(* C17: the first raw event on a channel after startup is accepted,        *)
(* whatever the clock reads: a rejected event always has an accepted       *)
(* event of its channel before it.                                         *)
C17_FirstEventAccepted ==
    /\ (op.name = "wheel_event" /\ ~accepted) => wheel_accepts > 0
    /\ (op.name = "crank_event" /\ ~accepted) => crank_accepts > 0

(* C18: in the running system the crank count and the crank event time    *)
(* stay 0, and every measurement sent has zero in its last four bytes.     *)
C18_CrankStaysZero ==
    /\ cumulative_crank_revolutions = 0
    /\ last_crank_event_time = 0
    /\ op.name # "crank_event"
    /\ \A i \in 1 .. Len(notified) :
        \A b \in 8 .. 11 : notified[i].data[b] = 0
    /\ measurement # <<>> => \A b \in 8 .. 11 : measurement[b] = 0

C18_Witness ==
    /\ op.name = "wheel_event"
    /\ accepted
    /\ cumulative_wheel_revolutions = 2
    /\ Len(notified) = 2
    /\ notified[2].data[2] = 2
    /\ notified[2].data[8] = 0

(* C19: no BLE event changes a count or an event time or makes a notify   *)
(* call; an event that is neither connect nor disconnect also leaves the   *)
(* registry as it is, does not advertise and raises nothing.               *)
C19_BleEventsFrame ==
    [][op'.name = "_irq"
        => /\ UNCHANGED <<cumulative_wheel_revolutions, last_wheel_event_time,
                          cumulative_crank_revolutions, last_crank_event_time>>
           /\ notified' = <<>>
           /\ measurement' = <<>>
           /\ (op'.event \notin {1, 2}
                => /\ connections' = connections
                   /\ advertised' = <<>>
                   /\ raised' = "none")]_vars

C19_Witness ==
    /\ op.name = "_irq"
    /\ op.event = 20
    /\ op.conn_handle \in connections
    /\ cumulative_wheel_revolutions = 2
    /\ cumulative_crank_revolutions = 1
    /\ last_wheel_event_time > 0
    /\ advertised = <<>>

=============================================================================
